---- MODULE Spec2Model ----
(***************************************************************************)
(* Model of lib::Handle<Body, Size> (HandleImpl.v3.h): an owning handle    *)
(* whose fixed-size storage_ holds either the body in place or a           *)
(* std::unique_ptr<Body> to a heap-allocated body.  HandleImpl.v2.h is the *)
(* unique_ptr-only variant and behaves as the indirect branch.             *)
(***************************************************************************)
EXTENDS Integers, FiniteSets, Sequences, TLC

\* ------------------------------------------------------------------ bounds
NumHandles == 3          \* handle objects the client program declares
MaxAddr    == 3          \* heap cells the allocator can hand out
MaxVal     == 1          \* body values are 0..MaxVal

MaxTime    == 2          \* times passed to a Survival object are -1..MaxTime
ProbScale  == 2          \* probabilities are k / ProbScale, k in 0..ProbScale

\* --------------------------------------------------------------- constants
SizeofVoidPtr == 8
Size          == 4 * SizeofVoidPtr   \* default template argument
Null          == 0                   \* nullptr
DefaultVal    == 0                   \* value of Body()
Uninit        == 0 - 1               \* raw storage_ of an object that is not alive
Free          == 0 - 1               \* heap cell holding no body
Tmp           == 0                   \* the local 'tmp' of copy assignment

Handles == 1..NumHandles
Ids     == Handles \cup {Tmp}
Addrs   == 1..MaxAddr
Vals    == 0..MaxVal

\* Instantiations Handle<Body, N>: sizeof(Body), alignof(Body) and footprint.
BodyTypes == { [name |-> "SmallCounter", size |-> 4,   align |-> 4, N |-> Size],
               [name |-> "LargeBuffer",  size |-> 200, align |-> 1, N |-> Size] }

\* Instantiations around the edges of the storage strategy; each footprint
\* passes the static_assert 'Size >= sizeof(void*)'.
FitsTypes == { [name |-> "ExactFit",      size |-> 32, align |-> 16, N |-> Size],
               [name |-> "OneByteOver",   size |-> 33, align |-> 1,  N |-> Size],
               [name |-> "OverAligned",   size |-> 32, align |-> 32, N |-> Size],
               [name |-> "PointerSized",  size |-> 8,  align |-> 8,  N |-> SizeofVoidPtr],
               [name |-> "TwoPointers",   size |-> 16, align |-> 8,  N |-> SizeofVoidPtr],
               [name |-> "OddFootprint",  size |-> 12, align |-> 4,  N |-> 12] }

OpNames == { "init", "default_construct", "copy_construct", "move_construct",
             "destroy", "copy_assign", "move_assign", "client_write" }

VARIABLES
  bodyType,    \* the Body of this instantiation (fixed at compile time)
  storage_,    \* Ids -> raw contents of each handle's storage_
  live,        \* handles whose lifetime has begun and not ended
  heap,        \* Addrs -> body value, or Free
  faults,      \* run-time faults that have happened
  lastOp,      \* history: the operation just performed and its effect counts
  surv         \* a pdg::Survival object and the last call made on it

vars == <<bodyType, storage_, live, heap, faults, lastOp, surv>>

\* ------------------------------------------------------- pdg::Survival
\* A class implementing the protocol supplies survival_prob_impl: a curve
\* S with S(0) = 1, decreasing, possibly reaching 0; the computation may
\* fail at a time (Fails), in which case it throws computation_error.  It
\* opts into the default conditional_survival_prob_impl.
Fails     == 0 - 1
Times     == (0 - 1)..MaxTime
Curves    == { S \in [0..MaxTime -> (0..ProbScale) \cup {Fails}] :
                 /\ S[0] = ProbScale
                 /\ \A x \in 0..MaxTime, y \in 0..MaxTime :
                      (x <= y /\ S[x] # Fails /\ S[y] # Fails) => S[y] <= S[x] }

NoResult  == [kind |-> "none",   num |-> 0, den |-> 1]
Thrown    == [kind |-> "throw",  num |-> 0, den |-> 1]
Aborted   == [kind |-> "assert", num |-> 0, den |-> 1]
Value(n, d) == [kind |-> "value", num |-> n, den |-> d]

SurvIdle == [ S |-> [x \in 0..MaxTime |-> ProbScale], call |-> "none",
              T |-> 0, t |-> 0, result |-> NoResult ]

RECURSIVE gcd(_, _)
gcd(a, b) == IF b = 0 THEN a ELSE gcd(b, a % b)

\* The quotient n / d of two probabilities, in lowest terms; d = 0 gives the
\* infinity (or NaN) of floating-point division, kept as n / 0.
Quotient(n, d) ==
  IF d = 0 THEN Value(n, 0)
  ELSE LET g == gcd(n, d) IN Value(n \div g, d \div g)

survival_prob(S, T) ==
  IF ~(T >= 0) THEN Aborted
  ELSE IF S[T] = Fails THEN Thrown
  ELSE Value(S[T], ProbScale)

\* Mutant: the default implementation tests S(T) instead of S(t) for zero.
conditional_survival_prob_impl_wrong_test(S, T, t) ==
  IF ~(0 <= t) \/ ~(t <= T) THEN Aborted
  ELSE LET S_t == survival_prob(S, t)
           S_T == survival_prob(S, T)
       IN IF S_t.kind # "value" THEN S_t
          ELSE IF S_T.kind = "value" /\ S_T.num = 0 THEN Thrown
          ELSE IF S_T.kind # "value" THEN S_T
          ELSE Quotient(S_T.num, S_t.num)

conditional_survival_prob_impl(S, T, t) ==
  IF ~(0 <= t) \/ ~(t <= T) THEN Aborted
  ELSE LET S_t == survival_prob(S, t)
       IN IF S_t.kind # "value" THEN S_t
          ELSE IF S_t.num = 0 THEN Thrown
          ELSE LET S_T == survival_prob(S, T)
               IN IF S_T.kind # "value" THEN S_T
                  ELSE Quotient(S_T.num, S_t.num)

conditional_survival_prob(S, T, t) ==
  IF ~(0 <= t) \/ ~(t <= T) THEN Aborted
  ELSE conditional_survival_prob_impl(S, T, t)

\* ------------------------------------------------- storage strategy (fits)
\* alignof(std::aligned_storage_t<N>): the default alignment, i.e. the most
\* stringent fundamental alignment of an object no larger than N.
RECURSIVE pow2le(_, _)
pow2le(n, p) == IF 2 * p <= n THEN pow2le(n, 2 * p) ELSE p

alignofStorage(N) == IF N >= 2 * SizeofVoidPtr THEN 2 * SizeofVoidPtr ELSE pow2le(N, 1)

\* Mutant: fits that compares the sizes only.
fits_size_only(sizeofT, alignofT, N) == sizeofT <= N

fits(sizeofT, alignofT, N) == sizeofT <= N /\ alignofT <= alignofStorage(N)

Inline   == fits(bodyType.size, bodyType.align, bodyType.N)
Indirect == ~Inline

\* ------------------------------------------------------- machine snapshots
\* The operations are written over a snapshot M of the object and heap state
\* so that an operation calling another one (copy assignment) composes them.
Cur == [ storage_ |-> storage_, live |-> live, heap |-> heap, faults |-> faults,
         nAlloc |-> 0, nFree |-> 0, nDtor |-> 0, thrown |-> FALSE ]

Allocated(M) == { a \in Addrs : M.heap[a] # Free }
FreeAddrs(M) == Addrs \ Allocated(M)

\* Mutant: operator-> without the fits branch, reading storage_ as a pointer
\* in either representation.
op_arrow_nobranch(M, h) ==
  IF M.storage_[h] = Null
  THEN [M EXCEPT !.faults = @ \cup {"assert"}]
  ELSE IF Indirect /\ M.heap[M.storage_[h]] = Free
       THEN [M EXCEPT !.faults = @ \cup {"use_after_free"}]
       ELSE M

\* operator-> : the assertion, and the use of the pointer it returns.
op_arrow(M, h) ==
  IF Inline THEN M
  ELSE IF M.storage_[h] = Null
       THEN [M EXCEPT !.faults = @ \cup {"assert"}]
       ELSE IF M.heap[M.storage_[h]] = Free
            THEN [M EXCEPT !.faults = @ \cup {"use_after_free"}]
            ELSE M

\* body(handle): the Body a handle refers to.
body(M, h) ==
  IF Inline THEN M.storage_[h]
  ELSE IF M.storage_[h] \in Addrs /\ M.heap[M.storage_[h]] # Free
       THEN M.heap[M.storage_[h]]
       ELSE DefaultVal

\* std::make_unique<Body>(v): 'a' is the cell operator new returns (Null: it
\* throws bad_alloc); 'ok' is FALSE when Body's constructor throws, in which
\* case the cell is given back before the exception leaves.
make_unique(M, a, ok, v) ==
  IF a = Null \/ ~ok THEN [M EXCEPT !.thrown = TRUE]
  ELSE [M EXCEPT !.heap[a] = v, !.nAlloc = @ + 1]

\* The unique_ptr deleter.
delete(M, p) ==
  IF M.heap[p] = Free THEN [M EXCEPT !.faults = @ \cup {"double_free"}]
  ELSE [M EXCEPT !.heap[p] = Free, !.nFree = @ + 1, !.nDtor = @ + 1]

\* Mutant: reset that forgets to delete the pointer it replaces.
unique_ptr_reset_leaky(M, h, p) ==
  [M EXCEPT !.storage_[h] = p]

\* unique_ptr::reset(p) on the pointer stored in handle h.
unique_ptr_reset(M, h, p) ==
  LET old == M.storage_[h]
      M1  == [M EXCEPT !.storage_[h] = p]
  IN IF old # Null THEN delete(M1, old) ELSE M1

\* Mutant: move assignment implemented as an exchange of the two pointers.
unique_ptr_move_assign_swap(M, dst, src) ==
  [M EXCEPT !.storage_[dst] = M.storage_[src],
            !.storage_[src] = M.storage_[dst]]

\* Mutant: move assignment that copies the pointer and leaves the source set.
unique_ptr_move_assign_norelease(M, dst, src) ==
  unique_ptr_reset(M, dst, M.storage_[src])

\* Mutant: hand-rolled move assignment that deletes the old pointee before
\* it takes the source's pointer: delete old; src = null; dst = p.
unique_ptr_move_assign_delete_first(M, dst, src) ==
  LET old == M.storage_[dst]
      p   == M.storage_[src]
      M1  == IF old # Null THEN delete(M, old) ELSE M
      M2  == [M1 EXCEPT !.storage_[src] = Null]
  IN [M2 EXCEPT !.storage_[dst] = p]

\* unique_ptr::operator=(unique_ptr&&): reset(u.release()).
unique_ptr_move_assign(M, dst, src) ==
  LET p  == M.storage_[src]
      M1 == [M EXCEPT !.storage_[src] = Null]
  IN unique_ptr_reset(M1, dst, p)

\* ------------------------------------------------------ Handle operations
\* Mutant: default construction that swallows the allocation failure and
\* stores a null pointer.
Handle_default_nothrow(M, this, a, ok) ==
  IF Inline
  THEN IF ok THEN [M EXCEPT !.storage_[this] = DefaultVal, !.live = @ \cup {this}]
             ELSE [M EXCEPT !.thrown = TRUE]
  ELSE LET M1 == make_unique(M, a, ok, DefaultVal)
       IN IF M1.thrown
          THEN [M EXCEPT !.storage_[this] = Null, !.live = @ \cup {this}]
          ELSE [M1 EXCEPT !.storage_[this] = a, !.live = @ \cup {this}]

\* Mutant: default construction that default-initialises the body ('new Body'
\* for 'new Body()'), leaving an indeterminate value in it.
Handle_default_indeterminate(M, this, a, ok) ==
  IF Inline
  THEN IF ok THEN [M EXCEPT !.storage_[this] = MaxVal, !.live = @ \cup {this}]
             ELSE [M EXCEPT !.thrown = TRUE]
  ELSE LET M1 == make_unique(M, a, ok, MaxVal)
       IN IF M1.thrown THEN M1
          ELSE [M1 EXCEPT !.storage_[this] = a, !.live = @ \cup {this}]

\* Mutant: default construction that allocates a body before it branches on
\* the representation.
Handle_default_always_heap(M, this, a, ok) ==
  LET c  == IF FreeAddrs(M) # {} THEN CHOOSE x \in FreeAddrs(M) : TRUE ELSE Null
      M1 == make_unique(M, IF Inline THEN c ELSE a, ok, DefaultVal)
  IN IF M1.thrown THEN M1
     ELSE IF Inline
          THEN [M1 EXCEPT !.storage_[this] = DefaultVal, !.live = @ \cup {this}]
          ELSE [M1 EXCEPT !.storage_[this] = a, !.live = @ \cup {this}]

Handle_default(M, this, a, ok) ==
  IF Inline
  THEN IF ok THEN [M EXCEPT !.storage_[this] = DefaultVal, !.live = @ \cup {this}]
             ELSE [M EXCEPT !.thrown = TRUE]
  ELSE LET M1 == make_unique(M, a, ok, DefaultVal)
       IN IF M1.thrown THEN M1
          ELSE [M1 EXCEPT !.storage_[this] = a, !.live = @ \cup {this}]

\* Mutant: copy construction that shares the source's pointer.
Handle_copy_shallow(M, this, other, a, ok) ==
  IF Inline
  THEN IF ok THEN [M EXCEPT !.storage_[this] = body(M, other),
                            !.live = @ \cup {this}]
             ELSE [M EXCEPT !.thrown = TRUE]
  ELSE [M EXCEPT !.storage_[this] = M.storage_[other], !.live = @ \cup {this}]

\* Mutant: copy construction without the test for a null source.
Handle_copy_nonullcheck(M, this, other, a, ok) ==
  LET M1 == op_arrow(M, other)
  IN IF Inline
     THEN IF ok THEN [M1 EXCEPT !.storage_[this] = body(M, other),
                                !.live = @ \cup {this}]
                ELSE [M1 EXCEPT !.thrown = TRUE]
     ELSE LET M2 == make_unique(M1, a, ok, body(M, other))
          IN IF M2.thrown THEN M2
             ELSE [M2 EXCEPT !.storage_[this] = a, !.live = @ \cup {this}]

\* Mutant: copy construction that starts the new handle's life with a null
\* pointer before it clones, so that a failure leaves it behind.
Handle_copy_partial(M, this, other, a, ok) ==
  IF Inline
  THEN IF ok THEN [M EXCEPT !.storage_[this] = body(M, other),
                            !.live = @ \cup {this}]
             ELSE [M EXCEPT !.thrown = TRUE]
  ELSE LET M0 == [M EXCEPT !.storage_[this] = Null, !.live = @ \cup {this}]
       IN IF M.storage_[other] # Null
          THEN LET M1 == make_unique(op_arrow(M0, other), a, ok, body(M, other))
               IN IF M1.thrown THEN M1 ELSE [M1 EXCEPT !.storage_[this] = a]
          ELSE M0

Handle_copy(M, this, other, a, ok) ==
  IF Inline
  THEN LET M1 == op_arrow(M, other)
       IN IF ok THEN [M1 EXCEPT !.storage_[this] = body(M, other),
                                !.live = @ \cup {this}]
                ELSE [M1 EXCEPT !.thrown = TRUE]
  ELSE IF M.storage_[other] # Null
       THEN LET M1 == op_arrow(M, other)
                M2 == make_unique(M1, a, ok, body(M, other))
            IN IF M2.thrown THEN M2
               ELSE [M2 EXCEPT !.storage_[this] = a, !.live = @ \cup {this}]
       ELSE [M EXCEPT !.storage_[this] = Null, !.live = @ \cup {this}]

\* Mutant: move construction that leaves the source pointer in place.
Handle_move_aliasing(M, this, other, u) ==
  IF Inline
  THEN [M EXCEPT !.storage_[this] = body(M, other),
                 !.storage_[other] = u,
                 !.live = @ \cup {this}]
  ELSE [M EXCEPT !.storage_[this] = M.storage_[other],
                 !.live = @ \cup {this}]

\* Mutant: move construction that clones the body into a new cell when one
\* is free and then releases the source.
Handle_move_cloning(M, this, other, u) ==
  IF Inline
  THEN [M EXCEPT !.storage_[this] = body(M, other),
                 !.storage_[other] = u,
                 !.live = @ \cup {this}]
  ELSE IF M.storage_[other] # Null /\ FreeAddrs(M) # {}
       THEN LET a  == CHOOSE x \in FreeAddrs(M) : TRUE
                M1 == make_unique(M, a, TRUE, body(M, other))
                M2 == unique_ptr_reset(M1, other, Null)
            IN [M2 EXCEPT !.storage_[this] = a, !.live = @ \cup {this}]
       ELSE [M EXCEPT !.storage_[this] = M.storage_[other],
                      !.storage_[other] = Null,
                      !.live = @ \cup {this}]

\* 'u' is the valid but unspecified value Body's move leaves in its source.
Handle_move(M, this, other, u) ==
  IF Inline
  THEN LET M1 == op_arrow(M, other)
       IN [M1 EXCEPT !.storage_[this] = body(M, other),
                     !.storage_[other] = u,
                     !.live = @ \cup {this}]
  ELSE [M EXCEPT !.storage_[this] = M.storage_[other],
                 !.storage_[other] = Null,
                 !.live = @ \cup {this}]

\* Mutant: destructor that never releases the owned pointer.
Handle_dtor_norelease(M, this) ==
  IF Inline
  THEN [M EXCEPT !.storage_[this] = Uninit, !.live = @ \ {this},
                 !.nDtor = @ + 1]
  ELSE [M EXCEPT !.storage_[this] = Uninit, !.live = @ \ {this}]

\* Mutant: destructor that leaves the in-place body undestroyed.
Handle_dtor_skip_inplace(M, this) ==
  IF Inline
  THEN [M EXCEPT !.storage_[this] = Uninit, !.live = @ \ {this}]
  ELSE LET M1 == unique_ptr_reset(M, this, Null)
       IN [M1 EXCEPT !.storage_[this] = Uninit, !.live = @ \ {this}]

\* nDtor counts the runs of Body's destructor.
Handle_dtor(M, this) ==
  IF Inline
  THEN LET M1 == op_arrow(M, this)
       IN [M1 EXCEPT !.storage_[this] = Uninit, !.live = @ \ {this},
                     !.nDtor = @ + 1]
  ELSE LET M1 == unique_ptr_reset(M, this, Null)
       IN [M1 EXCEPT !.storage_[this] = Uninit, !.live = @ \ {this}]

op_assign_move(M, this, other, u) ==
  IF Inline
  THEN LET M1 == op_arrow(op_arrow(M, other), this)
       IN [M1 EXCEPT !.storage_[this] = body(M, other),
                     !.storage_[other] = u]
  ELSE unique_ptr_move_assign(M, this, other)

\* Mutant: copy assignment that moves from the source instead of from a copy.
op_assign_copy_steals(M, this, other, a, ok, u) ==
  op_assign_move(M, this, other, u)

\* Mutant: copy assignment that gives up its own body before copying.
op_assign_copy_release_first(M, this, other, a, ok, u) ==
  LET M0 == IF Inline THEN M ELSE unique_ptr_reset(M, this, Null)
      M1 == Handle_copy(M0, Tmp, other, a, ok)
  IN IF M1.thrown THEN M1
     ELSE Handle_dtor(op_assign_move(M1, this, Tmp, u), Tmp)

\* Mutant: the classic copy assignment that deletes its own body and then
\* clones the source's, with no temporary.
op_assign_copy_delete_then_clone(M, this, other, a, ok, u) ==
  IF Inline
  THEN IF ok THEN [M EXCEPT !.storage_[this] = body(M, other)]
             ELSE [M EXCEPT !.thrown = TRUE]
  ELSE LET M0 == IF M.storage_[this] # Null THEN delete(M, M.storage_[this]) ELSE M
           M1 == IF M0.storage_[other] # Null THEN op_arrow(M0, other) ELSE M0
           M2 == IF M0.storage_[other] # Null
                 THEN make_unique(M1, a, ok, body(M0, other)) ELSE M1
       IN IF M2.thrown THEN M2
          ELSE [M2 EXCEPT !.storage_[this] =
                            IF M0.storage_[other] # Null THEN a ELSE Null]

op_assign_copy(M, this, other, a, ok, u) ==
  LET M1 == Handle_copy(M, Tmp, other, a, ok)
  IN IF M1.thrown THEN M1
     ELSE Handle_dtor(op_assign_move(M1, this, Tmp, u), Tmp)

\* A client statement 'h->value = v'.
client_write(M, h, v) ==
  LET M1 == op_arrow(M, h)
  IN IF M1.faults # M.faults THEN M1
     ELSE IF Inline THEN [M1 EXCEPT !.storage_[h] = v]
          ELSE [M1 EXCEPT !.heap[M.storage_[h]] = v]

\* ---------------------------------------------------------------- actions
Commit(M, op, dst, src) ==
  /\ storage_'  = M.storage_
  /\ live'      = M.live
  /\ heap'      = M.heap
  /\ faults'    = M.faults
  /\ lastOp'    = [ op |-> op, dst |-> dst, src |-> src, nAlloc |-> M.nAlloc,
                    nFree |-> M.nFree, nDtor |-> M.nDtor, thrown |-> M.thrown ]
  /\ UNCHANGED <<bodyType, surv>>

Running == faults = {}

\* operator new returns a free cell, or throws; it is called only in the
\* indirect representation.
NewResults == IF Inline THEN {Null} ELSE FreeAddrs(Cur) \cup {Null}

\* Body's constructor completes or throws; with no cell there is no Body to
\* construct.
CtorResults(a) == IF Indirect /\ a = Null THEN {TRUE} ELSE BOOLEAN

\* What Body's move leaves behind; Body is moved only when stored in place.
MovedVals == IF Inline THEN Vals ELSE {DefaultVal}

Init ==
  /\ bodyType \in BodyTypes
  /\ storage_ = [h \in Ids |-> Uninit]
  /\ live = {}
  /\ heap = [a \in Addrs |-> Free]
  /\ faults = {}
  /\ lastOp = [ op |-> "init", dst |-> Tmp, src |-> Tmp, nAlloc |-> 0,
                nFree |-> 0, nDtor |-> 0, thrown |-> FALSE ]
  /\ surv = SurvIdle

DefaultConstruct ==
  /\ Running
  /\ \E h \in Handles \ live, a \in NewResults : \E ok \in CtorResults(a) :
       Commit(Handle_default(Cur, h, a, ok), "default_construct", h, h)

CopyConstruct ==
  /\ Running
  /\ \E d \in Handles \ live, s \in live, a \in NewResults : \E ok \in CtorResults(a) :
       Commit(Handle_copy(Cur, d, s, a, ok), "copy_construct", d, s)

MoveConstruct ==
  /\ Running
  /\ \E d \in Handles \ live, s \in live, u \in MovedVals :
       Commit(Handle_move(Cur, d, s, u), "move_construct", d, s)

Destroy ==
  /\ Running
  /\ \E h \in live :
       Commit(Handle_dtor(Cur, h), "destroy", h, h)

CopyAssign ==
  /\ Running
  /\ \E d \in live, s \in live, a \in NewResults, u \in MovedVals : \E ok \in CtorResults(a) :
       Commit(op_assign_copy(Cur, d, s, a, ok, u), "copy_assign", d, s)

MoveAssign ==
  /\ Running
  /\ \E d \in live, s \in live, u \in MovedVals :
       Commit(op_assign_move(Cur, d, s, u), "move_assign", d, s)

ClientWrite ==
  /\ Running
  /\ \E h \in live, v \in Vals :
       Commit(client_write(Cur, h, v), "client_write", h, h)

Next ==
  \/ DefaultConstruct
  \/ CopyConstruct
  \/ MoveConstruct
  \/ Destroy
  \/ CopyAssign
  \/ MoveAssign
  \/ ClientWrite

Spec == Init /\ [][Next]_vars

\* The same program over the instantiations at the edges of 'fits'.
InitFits ==
  /\ bodyType \in FitsTypes
  /\ storage_ = [h \in Ids |-> Uninit]
  /\ live = {}
  /\ heap = [a \in Addrs |-> Free]
  /\ faults = {}
  /\ lastOp = [ op |-> "init", dst |-> Tmp, src |-> Tmp, nAlloc |-> 0,
                nFree |-> 0, nDtor |-> 0, thrown |-> FALSE ]
  /\ surv = SurvIdle

SpecFits == InitFits /\ [][Next]_vars

\* A client of one pdg::Survival object; no handle is in use.
InitSurvival ==
  /\ Init
  /\ bodyType.name = "SmallCounter"

SurvivalStart ==
  /\ surv.call = "none"
  /\ \E S \in Curves : surv' = [surv EXCEPT !.S = S, !.call = "constructed"]
  /\ UNCHANGED <<bodyType, storage_, live, heap, faults, lastOp>>

SurvivalRunning == surv.call # "none" /\ surv.result.kind # "assert"

SurvivalProb ==
  /\ SurvivalRunning
  /\ \E T \in Times :
       surv' = [surv EXCEPT !.call = "survival_prob", !.T = T, !.t = T,
                            !.result = survival_prob(surv.S, T)]
  /\ UNCHANGED <<bodyType, storage_, live, heap, faults, lastOp>>

ConditionalSurvivalProb ==
  /\ SurvivalRunning
  /\ \E T \in Times, t \in Times :
       surv' = [surv EXCEPT !.call = "conditional_survival_prob", !.T = T, !.t = t,
                            !.result = conditional_survival_prob(surv.S, T, t)]
  /\ UNCHANGED <<bodyType, storage_, live, heap, faults, lastOp>>

NextSurvival ==
  \/ SurvivalStart
  \/ SurvivalProb
  \/ ConditionalSurvivalProb

SpecSurvival == InitSurvival /\ [][NextSurvival]_vars

\* ------------------------------------------------------------ type sanity
TypeOK ==
  /\ bodyType \in BodyTypes
  /\ live \subseteq Handles
  /\ \A h \in Ids : storage_[h] \in (IF Inline THEN Vals ELSE Addrs \cup {Null}) \cup {Uninit}
  /\ \A a \in Addrs : heap[a] \in Vals \cup {Free}
  /\ faults \subseteq {"assert", "use_after_free", "double_free"}
  /\ lastOp.op \in OpNames

\* ------------------------------------------------------------- properties
ptr(h) == storage_[h]
Owners(a) == { h \in live : storage_[h] = a }
Done(op) == lastOp.op = op /\ ~lastOp.thrown

\* C1: exclusive ownership -- no two distinct live indirect handles hold the
\* same non-null body pointer, in any reachable state.
C1_ExclusiveOwnership ==
  Indirect =>
    \A h1 \in live, h2 \in live :
      (h1 # h2 /\ ptr(h1) # Null) => ptr(h1) # ptr(h2)

\* C1 witness: a move construction has just left two live handles, the
\* destination owning a body, while a third handle owns another body.
C1_Witness ==
  /\ Indirect /\ Done("move_construct")
  /\ ptr(lastOp.dst) \in Addrs
  /\ lastOp.src \in live
  /\ \E h \in live \ {lastOp.dst, lastOp.src} : ptr(h) \in Addrs

\* C2: no double free and no dangling pointer -- no body is deallocated
\* twice, and every live indirect handle holds null or the address of a body
\* that is currently allocated.
C2_NoDoubleFreeNoDangling ==
  /\ "double_free" \notin faults
  /\ "use_after_free" \notin faults
  /\ Indirect => \A h \in live : ptr(h) = Null \/ (ptr(h) \in Addrs /\ heap[ptr(h)] # Free)

\* C2 witness: the moved-from source of a move has just been destroyed
\* without a deallocation while the destination still owns the body.
C2_Witness ==
  /\ Indirect /\ Done("destroy") /\ lastOp.nFree = 0
  /\ \E h \in live : ptr(h) \in Addrs /\ heap[ptr(h)] # Free

\* C3: no leak -- at every moment each allocated body is owned by exactly
\* one live handle, so once every handle is destroyed the heap is empty.
C3_NoLeak ==
  /\ \A a \in Allocated(Cur) : Cardinality(Owners(a)) = 1
  /\ Inline => Allocated(Cur) = {}
  /\ live = {} => Allocated(Cur) = {}

\* C3 witness: the last live handle has just been destroyed, deallocating
\* its body, and the heap is empty.
C3_Witness ==
  /\ Indirect /\ Done("destroy") /\ lastOp.nFree = 1
  /\ live = {} /\ Allocated(Cur) = {}

\* A handle in the valid state: a constructed in-place body, or a non-null
\* pointer to an allocated body.
ValidIn(M, h) ==
  /\ h \in M.live
  /\ IF Inline THEN M.storage_[h] \in Vals
               ELSE M.storage_[h] \in Addrs /\ M.heap[M.storage_[h]] # Free

Valid(h) == ValidIn(Cur, h)

\* C4: copy construction from a valid handle gives a handle with an equal
\* body, leaves the source unchanged and shares nothing with it: a later
\* write through one handle changes the body of no other handle (inline and
\* indirect alike).
C4_CopyIndependent ==
  [][ /\ (lastOp'.op = "copy_construct" /\ ~lastOp'.thrown /\ Valid(lastOp'.src)) =>
          LET d == lastOp'.dst
              s == lastOp'.src
          IN /\ d \in live' /\ s \in live'
             /\ body(Cur', d) = body(Cur, s)
             /\ storage_'[s] = storage_[s]
             /\ body(Cur', s) = body(Cur, s)
             /\ Indirect => /\ storage_'[d] \in Addrs
                            /\ storage_'[d] # storage_'[s]
                            /\ heap[storage_'[d]] = Free
                            /\ heap'[storage_'[d]] # Free
      /\ (lastOp'.op = "client_write") =>
          \A g \in live \ {lastOp'.dst} :
             /\ g \in live'
             /\ storage_'[g] = storage_[g]
             /\ body(Cur', g) = body(Cur, g)
    ]_vars

\* C4 witness: a body that a client had written to has just been copied;
\* source and copy are both valid and hold the same non-default value.
C4_Witness ==
  /\ Done("copy_construct")
  /\ Valid(lastOp.src) /\ Valid(lastOp.dst)
  /\ body(Cur, lastOp.dst) = body(Cur, lastOp.src)
  /\ body(Cur, lastOp.dst) # DefaultVal

\* C5: move construction from a valid handle gives the new handle the
\* source's value; in the indirect representation the new handle holds the
\* very pointer the source held, the source holds null, and nothing is
\* allocated, deallocated or copied.
C5_MoveConstruct ==
  [][ (lastOp'.op = "move_construct" /\ Valid(lastOp'.src)) =>
        LET d == lastOp'.dst
            s == lastOp'.src
        IN /\ ~lastOp'.thrown /\ faults' = faults
           /\ d \in live' /\ s \in live'
           /\ body(Cur', d) = body(Cur, s)
           /\ lastOp'.nAlloc = 0 /\ lastOp'.nFree = 0
           /\ heap' = heap
           /\ Indirect => storage_'[d] = storage_[s] /\ storage_'[s] = Null
           /\ Inline => storage_'[s] \in Vals
    ]_vars

\* C5 witness: an indirect handle owning a written-to body has just been
\* moved into a new handle.
C5_Witness ==
  /\ Indirect /\ Done("move_construct")
  /\ ptr(lastOp.src) = Null
  /\ Valid(lastOp.dst) /\ body(Cur, lastOp.dst) # DefaultVal

\* C6: copy construction from a null (moved-from) indirect handle gives a
\* null handle, allocates nothing, trips no assertion, leaves the source
\* null, and both handles can be destroyed without a fault.
C6_CopyOfMovedFrom ==
  [][ (Indirect /\ lastOp'.op = "copy_construct" /\ storage_[lastOp'.src] = Null) =>
        LET d == lastOp'.dst
            s == lastOp'.src
        IN /\ ~lastOp'.thrown /\ faults' = {}
           /\ d \in live' /\ s \in live'
           /\ storage_'[d] = Null /\ storage_'[s] = Null
           /\ lastOp'.nAlloc = 0 /\ lastOp'.nFree = 0
           /\ heap' = heap
           /\ Handle_dtor(Cur', d).faults = {}
           /\ Handle_dtor(Handle_dtor(Cur', d), s).faults = {}
    ]_vars

\* C6 witness: a copy has just been constructed from a moved-from handle.
C6_Witness ==
  /\ Indirect /\ Done("copy_construct")
  /\ {lastOp.src, lastOp.dst} \subseteq live
  /\ ptr(lastOp.src) = Null /\ ptr(lastOp.dst) = Null

MoveOps   == {"move_construct", "move_assign"}
SourceOps == {"copy_construct", "copy_assign", "move_construct", "move_assign"}

\* Handle h is live and null after the step and was not so before it.
BecomesNull(h) ==
  /\ Indirect
  /\ h \in live' /\ storage_'[h] = Null
  /\ ~(h \in live /\ storage_[h] = Null)

\* C7 (as claimed): a handle comes to be in the moved-from (null) state only
\* as the source of a completed move construction or move assignment.
C7_OnlyMoveSourceIsNull ==
  [][ \A h \in Handles :
        BecomesNull(h) => (lastOp'.op \in MoveOps /\ lastOp'.src = h) ]_vars

\* Every live handle is valid or moved-from, and not both.
ValidOrMovedFrom ==
  \A h \in live :
    IF Inline THEN Valid(h)
    ELSE (storage_[h] = Null /\ ~Valid(h)) \/ (storage_[h] # Null /\ Valid(h))

\* C7 (amended): every live handle is valid or moved-from and not both; a
\* handle comes to be null only as the source of a completed move, or as
\* the handle constructed or assigned (by copy or by move) from a source
\* that was itself null; default construction never leaves it null.
C7_NullOnlyFromMoveOrNullSource ==
  [][ /\ ValidOrMovedFrom'
      /\ \A h \in Handles :
           BecomesNull(h) =>
             \/ lastOp'.op \in MoveOps /\ lastOp'.src = h
             \/ /\ lastOp'.op \in SourceOps /\ lastOp'.dst = h
                /\ lastOp'.src \in live /\ storage_[lastOp'.src] = Null ]_vars

\* C7 witness: a handle that was never the source of a move is null because
\* it has just been copy-constructed from a null handle, next to a valid one.
C7_Witness ==
  /\ Indirect /\ Done("copy_construct")
  /\ lastOp.dst \in live /\ ptr(lastOp.dst) = Null
  /\ \E h \in live : Valid(h)

\* C8: a copy assignment d = s (s distinct from d, valid or moved-from)
\* that completes leaves d with the value s had, leaves s unchanged,
\* leaves d and s owning distinct bodies, and releases the body d owned
\* before exactly once.
C8_CopyAssign ==
  [][ (lastOp'.op = "copy_assign" /\ ~lastOp'.thrown /\ lastOp'.dst # lastOp'.src) =>
        LET d == lastOp'.dst
            s == lastOp'.src
        IN /\ live' = live /\ faults' = faults
           /\ storage_'[s] = storage_[s]
           /\ Valid(s) => /\ ValidIn(Cur', s) /\ body(Cur', s) = body(Cur, s)
                          /\ ValidIn(Cur', d) /\ body(Cur', d) = body(Cur, s)
           /\ ~Valid(s) => storage_'[d] = Null
           /\ Indirect =>
                /\ storage_'[d] # Null => storage_'[d] # storage_'[s]
                /\ IF storage_[d] # Null
                   THEN lastOp'.nFree = 1 /\ heap'[storage_[d]] = Free
                   ELSE lastOp'.nFree = 0
           /\ Inline => lastOp'.nFree = 0 /\ heap' = heap
    ]_vars

\* C8 witness: a valid handle has just been copy-assigned the different
\* value of another valid handle.
C8_Witness ==
  /\ Done("copy_assign") /\ lastOp.dst # lastOp.src
  /\ Valid(lastOp.dst) /\ Valid(lastOp.src)
  /\ body(Cur, lastOp.dst) = body(Cur, lastOp.src)
  /\ body(Cur, lastOp.dst) # DefaultVal
  /\ Indirect => lastOp.nFree = 1

\* C9: strong guarantee -- a copy assignment whose temporary copy cannot be
\* built (allocation failure, or Body's copy throwing) leaves destination,
\* source and heap exactly as they were: nothing allocated, nothing freed.
C9_CopyAssignStrong ==
  [][ (lastOp'.op = "copy_assign" /\ lastOp'.thrown) =>
        /\ storage_' = storage_
        /\ heap' = heap
        /\ live' = live
        /\ faults' = faults
        /\ lastOp'.nAlloc = 0 /\ lastOp'.nFree = 0
    ]_vars

\* C9 witness: a copy assignment between two valid handles holding different
\* values has just failed, and they still hold different values.
C9_Witness ==
  /\ lastOp.op = "copy_assign" /\ lastOp.thrown
  /\ lastOp.dst # lastOp.src
  /\ Valid(lastOp.dst) /\ Valid(lastOp.src)
  /\ body(Cur, lastOp.dst) # body(Cur, lastOp.src)

\* C10: a move assignment d = move(s) on indirect handles, s distinct from
\* d, leaves d with the pointer s held, s null, the body d owned before
\* deallocated exactly once, nothing allocated and every other handle and
\* body unchanged.
C10_MoveAssign ==
  [][ (Indirect /\ lastOp'.op = "move_assign" /\ lastOp'.dst # lastOp'.src) =>
        LET d == lastOp'.dst
            s == lastOp'.src
        IN /\ ~lastOp'.thrown /\ faults' = faults /\ live' = live
           /\ storage_'[d] = storage_[s]
           /\ storage_'[s] = Null
           /\ lastOp'.nAlloc = 0
           /\ IF storage_[d] # Null
              THEN lastOp'.nFree = 1 /\ heap'[storage_[d]] = Free
              ELSE lastOp'.nFree = 0
           /\ \A a \in Addrs \ {storage_[d]} : heap'[a] = heap[a]
           /\ \A h \in Ids \ {d, s} : storage_'[h] = storage_[h]
    ]_vars

\* C10 witness: a valid handle has just been move-assigned from another
\* valid handle, freeing its old body, while a third handle owns a body.
C10_Witness ==
  /\ Indirect /\ Done("move_assign") /\ lastOp.dst # lastOp.src
  /\ lastOp.nFree = 1
  /\ Valid(lastOp.dst) /\ ptr(lastOp.src) = Null
  /\ \E h \in live \ {lastOp.dst, lastOp.src} : Valid(h)


\* C11: copy self-assignment h = h on a valid handle leaves h valid with the
\* body value it had, with no fault, and with as many allocated bodies after
\* as before (none leaked, none freed twice).
C11_CopySelfAssign ==
  [][ (lastOp'.op = "copy_assign" /\ lastOp'.dst = lastOp'.src /\ Valid(lastOp'.dst)) =>
        LET h == lastOp'.dst
        IN /\ faults' = faults
           /\ live' = live
           /\ ValidIn(Cur', h)
           /\ body(Cur', h) = body(Cur, h)
           /\ Cardinality(Allocated(Cur')) = Cardinality(Allocated(Cur))
           /\ lastOp'.nAlloc = lastOp'.nFree
           /\ \A g \in Ids \ {h} : storage_'[g] = storage_[g]
    ]_vars

\* C11 witness: a valid handle holding a written-to value has just been
\* copy-assigned to itself and the assignment completed.
C11_Witness ==
  /\ Done("copy_assign") /\ lastOp.dst = lastOp.src
  /\ Valid(lastOp.dst) /\ body(Cur, lastOp.dst) # DefaultVal
  /\ Indirect => lastOp.nAlloc = 1 /\ lastOp.nFree = 1


\* C12: move self-assignment h = move(h) on an indirect handle is safe: no
\* fault, nothing freed twice or leaked; h ends either with the same, still
\* allocated body or null with that body released; and h can afterwards be
\* destroyed and copied without a fault.
C12_MoveSelfAssign ==
  [][ (Indirect /\ lastOp'.op = "move_assign" /\ lastOp'.dst = lastOp'.src) =>
        LET h == lastOp'.dst
        IN /\ faults' = {} /\ ~lastOp'.thrown
           /\ live' = live
           /\ lastOp'.nAlloc = 0
           /\ \/ storage_'[h] = storage_[h] /\ heap' = heap /\ lastOp'.nFree = 0
              \/ /\ storage_'[h] = Null /\ storage_[h] # Null
                 /\ lastOp'.nFree = 1 /\ heap'[storage_[h]] = Free
                 /\ \A a \in Addrs \ {storage_[h]} : heap'[a] = heap[a]
           /\ storage_'[h] # Null => heap'[storage_'[h]] # Free
           /\ \A g \in Ids \ {h} : storage_'[g] = storage_[g]
           /\ Handle_dtor(Cur', h).faults = {}
           /\ \A a \in FreeAddrs(Cur') \cup {Null} :
                Handle_copy(Cur', Tmp, h, a, TRUE).faults = {}
    ]_vars

\* C12 witness: an indirect handle owning a body has just been move-assigned
\* to itself.
C12_Witness ==
  /\ Indirect /\ Done("move_assign") /\ lastOp.dst = lastOp.src
  /\ Valid(lastOp.dst) /\ body(Cur, lastOp.dst) # DefaultVal


\* C13: the null-pointer assertion of operator-> fails in a step exactly
\* when that step is a client dereference of an indirect handle in the
\* moved-from (null) state: never for an inline handle, never for a valid
\* indirect handle, never inside construction, assignment or destruction.
C13_AssertOnlyOnNullDeref ==
  [][ ("assert" \in faults' /\ "assert" \notin faults)
        <=> ( /\ lastOp'.op = "client_write"
              /\ Indirect
              /\ storage_[lastOp'.dst] = Null ) ]_vars

\* C13 witness: a client has just dereferenced a moved-from indirect handle
\* and the assertion failed, a copy of a moved-from handle having been made
\* without failure before.
C13_Witness ==
  /\ Indirect /\ lastOp.op = "client_write"
  /\ "assert" \in faults
  /\ ptr(lastOp.dst) = Null
  /\ \E h \in live \ {lastOp.dst} : ptr(h) = Null


\* C14: a default construction that completes yields a valid handle whose
\* dereference gives a default-valued body: in place for the inline
\* representation; for the indirect one a non-null pointer to a freshly
\* allocated default body that no other handle refers to.
C14_DefaultConstruct ==
  [][ (lastOp'.op = "default_construct" /\ ~lastOp'.thrown) =>
        LET d == lastOp'.dst
        IN /\ d \in live' /\ ValidIn(Cur', d)
           /\ op_arrow(Cur', d).faults = {}
           /\ body(Cur', d) = DefaultVal
           /\ Inline => storage_'[d] = DefaultVal /\ heap' = heap
           /\ Indirect => /\ storage_'[d] \in Addrs
                          /\ heap[storage_'[d]] = Free
                          /\ heap'[storage_'[d]] = DefaultVal
                          /\ \A g \in live' \ {d} : storage_'[g] # storage_'[d]
    ]_vars

\* C14 witness: a handle has just been default-constructed next to a live
\* handle whose body holds a non-default value.
C14_Witness ==
  /\ Done("default_construct") /\ Valid(lastOp.dst)
  /\ body(Cur, lastOp.dst) = DefaultVal
  /\ \E h \in live \ {lastOp.dst} : Valid(h) /\ body(Cur, h) # DefaultVal


\* C15: for indirect instantiations allocations and deallocations are
\* counted exactly: a completed default construction or copy construction
\* of a valid handle allocates exactly one body; move construction, move
\* assignment and destruction allocate none; a body is deallocated only by
\* the destruction of its owner or by the assignment that replaces it, once,
\* and a destroyed or replaced owner's body is always deallocated.
C15_ExactCounts ==
  [][ Indirect =>
        LET op == lastOp'.op
            d  == lastOp'.dst
            s  == lastOp'.src
            done == ~lastOp'.thrown
        IN /\ "double_free" \notin faults'
           /\ Cardinality(Allocated(Cur')) =
                Cardinality(Allocated(Cur)) + lastOp'.nAlloc - lastOp'.nFree
           /\ (op = "default_construct" /\ done) => lastOp'.nAlloc = 1
           /\ (op = "copy_construct" /\ done) =>
                lastOp'.nAlloc = (IF storage_[s] # Null THEN 1 ELSE 0)
           /\ (op = "copy_assign" /\ done) =>
                lastOp'.nAlloc = (IF storage_[s] # Null THEN 1 ELSE 0)
           /\ op \in {"move_construct", "move_assign", "destroy", "client_write"} =>
                lastOp'.nAlloc = 0
           /\ ~done => lastOp'.nAlloc = 0 /\ lastOp'.nFree = 0
           /\ lastOp'.nFree > 0 =>
                /\ op \in {"destroy", "copy_assign", "move_assign"}
                /\ lastOp'.nFree = 1
                /\ storage_[d] \in Addrs
                /\ heap[storage_[d]] # Free /\ heap'[storage_[d]] = Free
           /\ (op = "destroy" /\ storage_[d] # Null) => lastOp'.nFree = 1
           /\ (op \in {"copy_assign", "move_assign"} /\ done /\ d # s /\ storage_[d] # Null) =>
                lastOp'.nFree = 1
    ]_vars

\* C15 witness: the body an indirect handle owned has just been replaced by
\* a copy assignment: one allocation, one deallocation.
C15_Witness ==
  /\ Indirect /\ Done("copy_assign") /\ lastOp.dst # lastOp.src
  /\ lastOp.nAlloc = 1 /\ lastOp.nFree = 1
  /\ Cardinality(Allocated(Cur)) = 2


\* C16: for inline instantiations no handle operation (construction, copy,
\* move, assignment, destruction, dereference) allocates or deallocates:
\* every step leaves the heap as it was, and it stays empty.
C16_InlineNoHeap ==
  [][ Inline =>
        /\ heap' = heap
        /\ lastOp'.nAlloc = 0 /\ lastOp'.nFree = 0
        /\ Allocated(Cur') = {}
    ]_vars

\* C16 witness: an inline instantiation with all its handles live, where a
\* copy assignment of a written-to body has just completed.
C16_Witness ==
  /\ Inline /\ Done("copy_assign") /\ lastOp.dst # lastOp.src
  /\ live = Handles
  /\ body(Cur, lastOp.dst) # DefaultVal
  /\ Allocated(Cur) = {}


\* C17: destroying a handle releases exactly what it owns: an indirect
\* handle with a non-null pointer deallocates its body once, a null indirect
\* handle deallocates nothing, an inline handle always runs the destructor
\* of its in-place body, and every other handle and its body are unchanged.
C17_Destroy ==
  [][ lastOp'.op = "destroy" =>
        LET d == lastOp'.dst
        IN /\ live' = live \ {d}
           /\ faults' = faults /\ ~lastOp'.thrown
           /\ lastOp'.nAlloc = 0
           /\ (Indirect /\ storage_[d] # Null) =>
                /\ lastOp'.nFree = 1 /\ lastOp'.nDtor = 1
                /\ heap[storage_[d]] # Free /\ heap'[storage_[d]] = Free
                /\ \A a \in Addrs \ {storage_[d]} : heap'[a] = heap[a]
           /\ (Indirect /\ storage_[d] = Null) =>
                lastOp'.nFree = 0 /\ lastOp'.nDtor = 0 /\ heap' = heap
           /\ Inline =>
                lastOp'.nDtor = 1 /\ lastOp'.nFree = 0 /\ heap' = heap
           /\ \A g \in live \ {d} :
                /\ storage_'[g] = storage_[g]
                /\ body(Cur', g) = body(Cur, g)
                /\ ValidIn(Cur', g) <=> ValidIn(Cur, g)
    ]_vars

\* C17 witness: an indirect handle owning a body has just been destroyed,
\* its body deallocated, while a valid and a moved-from handle remain.
C17_Witness ==
  /\ Indirect /\ Done("destroy")
  /\ lastOp.nFree = 1 /\ lastOp.nDtor = 1
  /\ \E g \in live : Valid(g) /\ body(Cur, g) # DefaultVal
  /\ \E g \in live : ptr(g) = Null


\* The outcome of a failed operation: the exception leaves and nothing else
\* has happened.
OnlyThrown(M) == [M EXCEPT !.thrown = TRUE]

\* C18: an allocation failure during default or copy construction of an
\* indirect handle propagates to the caller and leaves no partial result:
\* no new handle, no body allocated by the failed operation, the source and
\* every other handle unchanged.
C18_FailedConstruction ==
  [][ Indirect =>
        /\ \A d \in Handles \ live :
             /\ Handle_default(Cur, d, Null, TRUE) = OnlyThrown(Cur)
             /\ \A s \in live :
                  storage_[s] # Null =>
                    Handle_copy(Cur, d, s, Null, TRUE) = OnlyThrown(Cur)
        /\ (lastOp'.op \in {"default_construct", "copy_construct"} /\ lastOp'.thrown) =>
             /\ lastOp'.dst \notin live'
             /\ live' = live
             /\ storage_' = storage_
             /\ heap' = heap
             /\ faults' = faults
             /\ lastOp'.nAlloc = 0 /\ lastOp'.nFree = 0
    ]_vars

\* C18 witness: copy construction from a valid indirect handle has just
\* failed; the source still holds its written-to body and no handle was
\* added.
C18_Witness ==
  /\ Indirect /\ lastOp.op = "copy_construct" /\ lastOp.thrown
  /\ lastOp.dst \notin live /\ storage_[lastOp.dst] = Uninit
  /\ Valid(lastOp.src) /\ body(Cur, lastOp.src) # DefaultVal
  /\ Cardinality(Allocated(Cur)) = Cardinality(live)


\* C19: representation selection -- for every instantiation whose footprint
\* can hold a pointer, every operation behaves as INLINE exactly when
\* sizeof(Body) <= N and alignof(Body) <= alignof(the N-byte storage) and as
\* INDIRECT otherwise; the instantiation never changes; and whenever
\* INDIRECT is selected the owning pointer fits the footprint.
C19_RepresentationSelection ==
  [][ LET inl  == /\ bodyType.size <= bodyType.N
                  /\ bodyType.align <= alignofStorage(bodyType.N)
          op   == lastOp'.op
          d    == lastOp'.dst
          s    == lastOp'.src
          done == ~lastOp'.thrown
      IN /\ bodyType' = bodyType
         /\ bodyType.N >= SizeofVoidPtr
         /\ inl =>
              /\ heap' = heap /\ lastOp'.nAlloc = 0 /\ lastOp'.nFree = 0
              /\ \A h \in live' : storage_'[h] \in Vals
              /\ (op = "default_construct" /\ done) => storage_'[d] = DefaultVal
              /\ (op = "client_write" /\ faults' = {}) => storage_'[d] \in Vals
              /\ op = "destroy" => lastOp'.nDtor = 1
         /\ ~inl =>
              /\ fits(SizeofVoidPtr, SizeofVoidPtr, bodyType.N)
              /\ \A h \in live' :
                   storage_'[h] = Null \/
                     (storage_'[h] \in Addrs /\ heap'[storage_'[h]] # Free)
              /\ (op = "default_construct" /\ done) => lastOp'.nAlloc = 1
              /\ (op \in {"copy_construct", "copy_assign"} /\ done /\ storage_[s] # Null) =>
                   lastOp'.nAlloc = 1
              /\ (op = "move_construct") =>
                   storage_'[d] = storage_[s] /\ storage_'[s] = Null
              /\ (op = "move_assign" /\ d # s) =>
                   storage_'[d] = storage_[s] /\ storage_'[s] = Null
              /\ (op = "destroy" /\ storage_[d] # Null) => lastOp'.nFree = 1
              /\ op = "client_write" => storage_' = storage_
    ]_vars

\* C19 witness: a body that is small enough but over-aligned is held
\* indirectly: its handle has just been copied with one allocation.
C19_Witness ==
  /\ bodyType.size <= bodyType.N
  /\ bodyType.align > alignofStorage(bodyType.N)
  /\ Done("copy_construct") /\ lastOp.nAlloc = 1
  /\ Valid(lastOp.dst) /\ Valid(lastOp.src)
  /\ ptr(lastOp.dst) # ptr(lastOp.src)


====
